---- MODULE Spec2Model ----
(***************************************************************************)
(* Model of src/app.py: a Flask frontend whose page handlers translate a   *)
(* page request into calls to a backend API (make_api_request), queue     *)
(* flash notifications and answer with a rendered template, a redirect or *)
(* a JSON document.                                                        *)
(*                                                                         *)
(* One request is handled at a time: a handler action takes the server    *)
(* from "idle" to "done", recording what the request was, which backend   *)
(* calls it made, how the network answered them, which notifications it   *)
(* passed to flash() and what it returned; teardown_request then returns  *)
(* the server to "idle".                                                   *)
(*                                                                         *)
(* Python's None is the empty set and a present value x is {x}, so that   *)
(* optional values of any type stay comparable.                            *)
(***************************************************************************)
EXTENDS Integers, Sequences, FiniteSets, TLC

VARIABLES pc, request, calls, outcomes, flashes, response

vars == <<pc, request, calls, outcomes, flashes, response>>

----------------------------------------------------------------------------
(* Bounds of the model *)

\* longest text typed into the `age` form field
MaxAgeLen == 2

\* largest user id in a /edit_user/<id> or /delete_user/<id> path
MaxUserId == 1

----------------------------------------------------------------------------
(* Values *)

None == {}

Some(x) == {x}

Val(o) == CHOOSE x \in o : TRUE

\* os.getenv('API_BASE_URL'), read once at start-up
API_BASE_URL == "http://backend"

\* characters a client can type into the age field; strings are sequences
\* of characters
Chars == {"0", "7", "-", "x"}

Digits == {"0", "7"}

AgeStrings == UNION {[1..n -> Chars] : n \in 0..MaxAgeLen}

\* request.form: .get(field) is None when the field was not submitted
Forms ==
    [name : {None, Some("Alice")},
     email : {None, Some("alice@example.com")},
     age : {None} \cup {Some(s) : s \in AgeStrings}]

EmptyForm == [name |-> None, email |-> None, age |-> None]

\* Flask's <int:user_id> converter accepts the non-negative integers
UserIds == 0..MaxUserId

Alice == [id |-> 1, name |-> "Alice", email |-> "alice@example.com", age |-> Some(30)]

Bob == [id |-> 2, name |-> "Bob", email |-> "bob@example.com", age |-> None]

\* bodies the backend can send: text that is not JSON, a JSON array, and
\* JSON objects with or without an `error` and a `data` member
Bodies ==
    {[kind |-> "invalid", error |-> None, data |-> None],
     [kind |-> "array", error |-> None, data |-> None],
     [kind |-> "object", error |-> None, data |-> None],
     [kind |-> "object", error |-> Some("email already exists"), data |-> None],
     [kind |-> "object", error |-> None, data |-> Some(<<Alice, Bob>>)]}

StatusCodes == {200, 201, 400, 500}

NoBody == [kind |-> "invalid", error |-> None, data |-> None]

\* what the requests library does for one outbound call: it returns a
\* response, raises a RequestException (connection refused, timeout, DNS
\* failure), or raises an exception of another class
NetOutcomes ==
    [kind : {"response"}, status : StatusCodes, body : Bodies]
      \cup {[kind |-> "RequestException", status |-> 0, body |-> NoBody],
            [kind |-> "OtherException", status |-> 0, body |-> NoBody]}

----------------------------------------------------------------------------
(* Library behaviour the handlers rely on *)

\* truth value of a make_api_request result: None is false, and a
\* requests.Response is true exactly when its status is below 400
\* (Response.__bool__ returns Response.ok)
truthy(resp) == resp # None /\ Val(resp).status < 400

\* forgetting the status comparison: any response that is true counts
succeeded_any_status(resp, code) == truthy(resp)

\* accepting both 200 and 201 wherever one of them is expected
succeeded_ok_or_created(resp, code) ==
    truthy(resp) /\ Val(resp).status \in {200, 201}

\* the test `response and response.status_code == code` of every handler
succeeded(resp, code) == truthy(resp) /\ Val(resp).status = code

\* response.json() raises when the body is not JSON
json_raises(resp) == Val(resp).body.kind = "invalid"

\* error_data.get(...) / users_data.get(...) raises AttributeError when the
\* decoded body is not an object
get_raises(resp) == Val(resp).body.kind # "object"

DigitVal(c) == IF c = "7" THEN 7 ELSE 0

RECURSIVE DigitsVal(_)
DigitsVal(s) ==
    IF s = <<>> THEN 0
    ELSE 10 * DigitsVal(SubSeq(s, 1, Len(s) - 1)) + DigitVal(s[Len(s)])

IsIntLiteral(s) ==
    LET ds == IF Len(s) > 0 /\ s[1] = "-" THEN Tail(s) ELSE s
    IN  Len(ds) > 0 /\ \A i \in 1..Len(ds) : ds[i] \in Digits

\* Python's int(str): an optional sign followed by decimal digits, and
\* ValueError for anything else
int(s) ==
    IF ~IsIntLiteral(s) THEN [raised |-> TRUE, value |-> 0]
    ELSE IF s[1] = "-" THEN [raised |-> FALSE, value |-> 0 - DigitsVal(Tail(s))]
    ELSE [raised |-> FALSE, value |-> DigitsVal(s)]

flash(queue, message, category) ==
    Append(queue, [category |-> category, message |-> message])

render_template(name, users) ==
    [kind |-> "template", status |-> 200, target |-> name, users |-> users,
     json |-> None]

redirect(target) ==
    [kind |-> "redirect", status |-> 302, target |-> target, users |-> <<>>,
     json |-> None]

jsonify(doc) ==
    [kind |-> "json", status |-> 200, target |-> "", users |-> <<>>,
     json |-> Some(doc)]

\* the 500 handler, run by Flask when a view raises
internal_error ==
    [kind |-> "template", status |-> 500, target |-> "500.html", users |-> <<>>,
     json |-> None]

----------------------------------------------------------------------------
(* make_api_request *)

UsersEndpoint == [path |-> "/users", id |-> None]

UserEndpoint(user_id) == [path |-> "/users/", id |-> Some(user_id)]

RootEndpoint == [path |-> "/", id |-> None]

\* the outbound request: GET and DELETE carry no body
ApiCall(method, endpoint, data) ==
    [method |-> method, base |-> API_BASE_URL, endpoint |-> endpoint,
     json |-> IF method \in {"POST", "PUT"} THEN data ELSE None]

\* without the except clause: a RequestException reaches the handler
make_api_request_reraise(method, endpoint, data, net) ==
    IF method \notin {"GET", "POST", "PUT", "DELETE"}
    THEN [raised |-> TRUE, ret |-> None]
    ELSE IF net.kind = "response"
    THEN [raised |-> FALSE, ret |-> Some([status |-> net.status, body |-> net.body])]
    ELSE [raised |-> TRUE, ret |-> None]

\* result of make_api_request when the network behaves as `net`: the
\* response, None after a RequestException, or the exception it lets through
make_api_request(method, endpoint, data, net) ==
    IF method \notin {"GET", "POST", "PUT", "DELETE"}
    THEN [raised |-> TRUE, ret |-> None]
    ELSE IF net.kind = "response"
    THEN [raised |-> FALSE, ret |-> Some([status |-> net.status, body |-> net.body])]
    ELSE IF net.kind = "RequestException"
    THEN [raised |-> FALSE, ret |-> None]
    ELSE [raised |-> TRUE, ret |-> None]

----------------------------------------------------------------------------
(* Page handlers: each yields the calls made, the network outcomes they   *)
(* met, the notifications queued and the response returned                *)

Result(cs, os, fs, r) ==
    [calls |-> cs, outcomes |-> os, flashes |-> fs, response |-> r]

index(net) ==
    LET call == ApiCall("GET", UsersEndpoint, None)
        r == make_api_request("GET", UsersEndpoint, None, net)
        failed == flash(<<>>, <<"Error connecting to backend API">>, "error")
    IN  IF r.raised
        THEN Result(<<call>>, <<net>>, failed,
                    render_template("index.html", <<>>))
        ELSE IF succeeded(r.ret, 200)
        THEN IF json_raises(r.ret) \/ get_raises(r.ret)
             THEN Result(<<call>>, <<net>>, failed,
                         render_template("index.html", <<>>))
             ELSE Result(<<call>>, <<net>>, <<>>,
                         render_template("index.html",
                             IF Val(r.ret).body.data = None THEN <<>>
                             ELSE Val(Val(r.ret).body.data)))
        ELSE Result(<<call>>, <<net>>,
                    flash(<<>>, <<"Failed to load users from API">>, "error"),
                    render_template("index.html", <<>>))

\* `int(age) or None`: the age 0 is sent as null
user_data_zero_is_null(form) ==
    IF form.age # None /\ Val(form.age) # <<>>
    THEN LET n == int(Val(form.age))
         IN  [raised |-> n.raised,
              data |-> [name |-> form.name, email |-> form.email,
                        age |-> IF n.value = 0 THEN None ELSE Some(n.value)]]
    ELSE [raised |-> FALSE,
          data |-> [name |-> form.name, email |-> form.email, age |-> None]]

\* catching ValueError: an age that is not a number is sent as null
user_data_lenient(form) ==
    IF form.age # None /\ Val(form.age) # <<>> /\ ~int(Val(form.age)).raised
    THEN [raised |-> FALSE,
          data |-> [name |-> form.name, email |-> form.email,
                    age |-> Some(int(Val(form.age)).value)]]
    ELSE [raised |-> FALSE,
          data |-> [name |-> form.name, email |-> form.email, age |-> None]]

\* the user_data dictionary built from the submitted form; int() may raise
user_data(form) ==
    IF form.age # None /\ Val(form.age) # <<>>
    THEN LET n == int(Val(form.age))
         IN  [raised |-> n.raised,
              data |-> [name |-> form.name, email |-> form.email,
                        age |-> Some(n.value)]]
    ELSE [raised |-> FALSE,
          data |-> [name |-> form.name, email |-> form.email, age |-> None]]

\* error_msg of the failure branch of add_user and edit_user
error_msg(resp, default) ==
    IF truthy(resp)
    THEN IF json_raises(resp) \/ get_raises(resp) THEN default
         ELSE IF Val(resp).body.error = None THEN default
         ELSE Val(Val(resp).body.error)
    ELSE default

add_user(method, form, net) ==
    IF method = "POST"
    THEN LET ud == user_data(form)
             call == ApiCall("POST", UsersEndpoint, Some(ud.data))
             r == make_api_request("POST", UsersEndpoint, Some(ud.data), net)
         IN  IF ud.raised
             THEN Result(<<>>, <<>>, <<>>, internal_error)
             ELSE IF r.raised
             THEN Result(<<call>>, <<net>>, <<>>, internal_error)
             ELSE IF succeeded(r.ret, 201)
             THEN Result(<<call>>, <<net>>,
                         flash(<<>>, <<"User created successfully!">>, "success"),
                         redirect("index"))
             ELSE Result(<<call>>, <<net>>,
                         flash(<<>>,
                               <<"Error: ", error_msg(r.ret, "Failed to create user")>>,
                               "error"),
                         render_template("add_user.html", <<>>))
    ELSE Result(<<>>, <<>>, <<>>, render_template("add_user.html", <<>>))

\* redirecting without a notification when the user cannot be fetched
edit_user_fetch_silent(user_id, cs, os, fs, net) ==
    LET call == ApiCall("GET", UserEndpoint(user_id), None)
        r == make_api_request("GET", UserEndpoint(user_id), None, net)
        cs2 == Append(cs, call)
        os2 == Append(os, net)
    IN  IF r.raised
        THEN Result(cs2, os2, fs, internal_error)
        ELSE IF succeeded(r.ret, 200)
        THEN IF json_raises(r.ret) \/ get_raises(r.ret)
             THEN Result(cs2, os2, fs, internal_error)
             ELSE Result(cs2, os2, fs,
                         render_template("edit_user.html",
                             IF Val(r.ret).body.data = None THEN <<>>
                             ELSE Val(Val(r.ret).body.data)))
        ELSE Result(cs2, os2, fs, redirect("index"))

\* the part of edit_user after the POST branch: fetch the user to edit
edit_user_fetch(user_id, cs, os, fs, net) ==
    LET call == ApiCall("GET", UserEndpoint(user_id), None)
        r == make_api_request("GET", UserEndpoint(user_id), None, net)
        cs2 == Append(cs, call)
        os2 == Append(os, net)
    IN  IF r.raised
        THEN Result(cs2, os2, fs, internal_error)
        ELSE IF succeeded(r.ret, 200)
        THEN IF json_raises(r.ret) \/ get_raises(r.ret)
             THEN Result(cs2, os2, fs, internal_error)
             ELSE Result(cs2, os2, fs,
                         render_template("edit_user.html",
                             IF Val(r.ret).body.data = None THEN <<>>
                             ELSE Val(Val(r.ret).body.data)))
        ELSE Result(cs2, os2, flash(fs, <<"User not found">>, "error"),
                    redirect("index"))

edit_user(method, user_id, form, net1, net2) ==
    IF method = "POST"
    THEN LET ud == user_data(form)
             call == ApiCall("PUT", UserEndpoint(user_id), Some(ud.data))
             r == make_api_request("PUT", UserEndpoint(user_id), Some(ud.data), net1)
         IN  IF ud.raised
             THEN Result(<<>>, <<>>, <<>>, internal_error)
             ELSE IF r.raised
             THEN Result(<<call>>, <<net1>>, <<>>, internal_error)
             ELSE IF succeeded(r.ret, 200)
             THEN Result(<<call>>, <<net1>>,
                         flash(<<>>, <<"User updated successfully!">>, "success"),
                         redirect("index"))
             ELSE edit_user_fetch(user_id, <<call>>, <<net1>>,
                         flash(<<>>,
                               <<"Error: ", error_msg(r.ret, "Failed to update user")>>,
                               "error"),
                         net2)
    ELSE edit_user_fetch(user_id, <<>>, <<>>, <<>>, net1)

\* testing only that a response came back
delete_user_any_response(user_id, net) ==
    LET call == ApiCall("DELETE", UserEndpoint(user_id), None)
        r == make_api_request("DELETE", UserEndpoint(user_id), None, net)
    IN  IF r.raised
        THEN Result(<<call>>, <<net>>, <<>>, internal_error)
        ELSE IF r.ret # None
        THEN Result(<<call>>, <<net>>,
                    flash(<<>>, <<"User deleted successfully!">>, "success"),
                    redirect("index"))
        ELSE Result(<<call>>, <<net>>,
                    flash(<<>>, <<"Failed to delete user">>, "error"),
                    redirect("index"))

\* repeating the DELETE once when it did not succeed
delete_user_retry(user_id, net) ==
    LET call == ApiCall("DELETE", UserEndpoint(user_id), None)
        r == make_api_request("DELETE", UserEndpoint(user_id), None, net)
    IN  IF r.raised
        THEN Result(<<call>>, <<net>>, <<>>, internal_error)
        ELSE IF succeeded(r.ret, 200)
        THEN Result(<<call>>, <<net>>,
                    flash(<<>>, <<"User deleted successfully!">>, "success"),
                    redirect("index"))
        ELSE Result(<<call, call>>, <<net, net>>,
                    flash(<<>>, <<"Failed to delete user">>, "error"),
                    redirect("index"))

delete_user(user_id, net) ==
    LET call == ApiCall("DELETE", UserEndpoint(user_id), None)
        r == make_api_request("DELETE", UserEndpoint(user_id), None, net)
    IN  IF r.raised
        THEN Result(<<call>>, <<net>>, <<>>, internal_error)
        ELSE IF succeeded(r.ret, 200)
        THEN Result(<<call>>, <<net>>,
                    flash(<<>>, <<"User deleted successfully!">>, "success"),
                    redirect("index"))
        ELSE Result(<<call>>, <<net>>,
                    flash(<<>>, <<"Failed to delete user">>, "error"),
                    redirect("index"))

health_check(net) ==
    LET call == ApiCall("GET", RootEndpoint, None)
        r == make_api_request("GET", RootEndpoint, None, net)
        backend_status ==
            IF r.raised THEN "unreachable"
            ELSE IF succeeded(r.ret, 200) THEN "healthy"
            ELSE "unhealthy"
    IN  Result(<<call>>, <<net>>, <<>>,
               jsonify([frontend |-> "healthy", backend |-> backend_status,
                        api_url |-> API_BASE_URL]))

----------------------------------------------------------------------------
(* The server *)

NoRequest == [route |-> "", method |-> "", user_id |-> None, form |-> EmptyForm]

NoResponse ==
    [kind |-> "", status |-> 0, target |-> "", users |-> <<>>, json |-> None]

Init ==
    /\ pc = "idle"
    /\ request = NoRequest
    /\ calls = <<>>
    /\ outcomes = <<>>
    /\ flashes = <<>>
    /\ response = NoResponse

\* the request has been handled with result res
Handled(req, res) ==
    /\ pc' = "done"
    /\ request' = req
    /\ calls' = res.calls
    /\ outcomes' = res.outcomes
    /\ flashes' = res.flashes
    /\ response' = res.response

Index ==
    /\ pc = "idle"
    /\ \E net \in NetOutcomes :
        Handled([route |-> "/", method |-> "GET", user_id |-> None,
                 form |-> EmptyForm],
                index(net))

AddUser ==
    /\ pc = "idle"
    /\ \E method \in {"GET", "POST"}, net \in NetOutcomes :
        \E form \in (IF method = "POST" THEN Forms ELSE {EmptyForm}) :
            Handled([route |-> "/add_user", method |-> method,
                     user_id |-> None, form |-> form],
                    add_user(method, form, net))

EditUser ==
    /\ pc = "idle"
    /\ \E method \in {"GET", "POST"}, user_id \in UserIds,
       net1 \in NetOutcomes, net2 \in NetOutcomes :
        \E form \in (IF method = "POST" THEN Forms ELSE {EmptyForm}) :
            Handled([route |-> "/edit_user", method |-> method,
                     user_id |-> Some(user_id), form |-> form],
                    edit_user(method, user_id, form, net1, net2))

DeleteUser ==
    /\ pc = "idle"
    /\ \E user_id \in UserIds, net \in NetOutcomes :
        Handled([route |-> "/delete_user", method |-> "POST",
                 user_id |-> Some(user_id), form |-> EmptyForm],
                delete_user(user_id, net))

HealthCheck ==
    /\ pc = "idle"
    /\ \E net \in NetOutcomes :
        Handled([route |-> "/api/health", method |-> "GET", user_id |-> None,
                 form |-> EmptyForm],
                health_check(net))

\* the response has been sent; the server waits for the next request
teardown_request ==
    /\ pc = "done"
    /\ pc' = "idle"
    /\ request' = NoRequest
    /\ calls' = <<>>
    /\ outcomes' = <<>>
    /\ flashes' = <<>>
    /\ response' = NoResponse

Next ==
    \/ Index
    \/ AddUser
    \/ EditUser
    \/ DeleteUser
    \/ HealthCheck
    \/ teardown_request

Spec == Init /\ [][Next]_vars

----------------------------------------------------------------------------
(* Vocabulary of the properties *)

Done == pc = "done"

Submit(route) == Done /\ request.route = route /\ request.method = "POST"

\* the network outcome of the i-th backend call of the request
Returned(i) == i <= Len(outcomes) /\ outcomes[i].kind = "response"

Absent(i) == i <= Len(outcomes) /\ outcomes[i].kind = "RequestException"

ReturnedStatus(i, status) == Returned(i) /\ outcomes[i].status = status

\* an absent response, or a response with another status
OtherThan(i, status) == Absent(i) \/ (Returned(i) /\ outcomes[i].status # status)

ExpectedStatus(call) == IF call.method = "POST" THEN 201 ELSE 200

ErrorsQueued == {i \in 1..Len(flashes) : flashes[i].category = "error"}

SuccessesQueued == {i \in 1..Len(flashes) : flashes[i].category = "success"}

Contains(message, text) == \E i \in 1..Len(message) : message[i] = text

\* text of the age field that is a decimal numeral, with or without a sign
NumericText(s) ==
    \E sign \in {<<>>, <<"-">>} :
        \E n \in 1..Len(s) :
            /\ Len(s) = Len(sign) + n
            /\ SubSeq(s, 1, Len(sign)) = sign
            /\ \A i \in (Len(sign) + 1)..Len(s) : s[i] \in {"0", "7"}

\* the number a numeral denotes, read left to right
RECURSIVE Reading(_, _)
Reading(s, acc) ==
    IF s = <<>> THEN acc
    ELSE Reading(Tail(s), 10 * acc + (IF Head(s) = "7" THEN 7 ELSE 0))

NumberOf(s) == IF s[1] = "-" THEN 0 - Reading(Tail(s), 0) ELSE Reading(s, 0)

AgeBlank == request.form.age = None \/ request.form.age = Some(<<>>)

AgeNumeric == ~AgeBlank /\ NumericText(Val(request.form.age))

AgeNonNumeric == ~AgeBlank /\ ~NumericText(Val(request.form.age))

----------------------------------------------------------------------------
(* Properties *)

\* C1: a Create submission answered with a status other than 201 and a JSON
\* body with an `error` field re-renders the creation form and queues
\* exactly one error notification whose text contains that `error` string.
C1_ErrorFieldShown ==
    (Submit("/add_user") /\ OtherThan(1, 201) /\ Returned(1)
        /\ outcomes[1].body.kind = "object" /\ outcomes[1].body.error # None)
    => /\ response = render_template("add_user.html", <<>>)
       /\ Len(flashes) = 1
       /\ flashes[1].category = "error"
       /\ Contains(flashes[1].message, Val(outcomes[1].body.error))

\* C2 (as stated): an Edit submission whose PUT /users/{id} has any outcome
\* other than status 200 queues exactly one error notification and answers
\* with the re-rendered edit form, never with a redirect to List.
C2_AlwaysRerendersForm ==
    (Submit("/edit_user") /\ OtherThan(1, 200))
    => /\ Len(flashes) = 1
       /\ flashes[1].category = "error"
       /\ response.kind = "template"
       /\ response.target = "edit_user.html"

\* C2 (amended): an Edit submission whose PUT /users/{id} has any outcome
\* other than status 200 queues an error notification and then calls
\* GET /users/{id}; only error notifications are queued; if that GET has any
\* outcome other than status 200, a second error notification "User not
\* found" is queued and the response is a redirect to List; if it returns
\* status 200 with a JSON object, the response is the re-rendered edit form
\* and exactly one error notification is queued; a redirect is given in no
\* other case.
C2_RerendersFormOrRedirects ==
    (Submit("/edit_user") /\ OtherThan(1, 200))
    => /\ Len(calls) = 2
       /\ calls[2] = ApiCall("GET", UserEndpoint(Val(request.user_id)), None)
       /\ Len(flashes) >= 1
       /\ ErrorsQueued = 1..Len(flashes)
       /\ OtherThan(2, 200) =>
            /\ response = redirect("index")
            /\ Len(flashes) = 2
            /\ flashes[2].message = <<"User not found">>
       /\ (ReturnedStatus(2, 200) /\ outcomes[2].body.kind = "object") =>
            /\ response.kind = "template"
            /\ response.target = "edit_user.html"
            /\ response.status = 200
            /\ Len(flashes) = 1
       /\ response.kind = "redirect" => OtherThan(2, 200)

C2_Witness ==
    /\ Submit("/edit_user")
    /\ ReturnedStatus(1, 400)
    /\ Absent(2)
    /\ response = redirect("index")
    /\ Len(flashes) = 2

\* C3 (as stated): every request invokes the adapter exactly once, and zero
\* times for the Create form GET.
C3_OneCallPerRequest ==
    Done => Len(calls) =
              (IF request.route = "/add_user" /\ request.method = "GET"
               THEN 0 ELSE 1)

\* C3 (amended): a request invokes the adapter exactly once, except that the
\* Create form GET and a Create or Edit submission with a non-numeric age
\* make no call, and an Edit submission whose PUT /users/{id} has any
\* outcome other than status 200 makes exactly two calls, the PUT followed
\* by one GET /users/{id}; no call is issued twice.
C3_CallsPerRequest ==
    Done =>
      /\ Len(calls) =
           (IF request.route = "/add_user" /\ request.method = "GET" THEN 0
            ELSE IF request.method = "POST"
                    /\ request.route \in {"/add_user", "/edit_user"}
                    /\ AgeNonNumeric THEN 0
            ELSE IF request.route = "/edit_user" /\ request.method = "POST"
                    /\ OtherThan(1, 200) THEN 2
            ELSE 1)
      /\ Len(outcomes) = Len(calls)
      /\ \A i, j \in 1..Len(calls) : calls[i] = calls[j] => i = j
      /\ Len(calls) = 2 => calls[1].method = "PUT" /\ calls[2].method = "GET"

C3_Witness ==
    /\ Submit("/edit_user")
    /\ Absent(1)
    /\ Len(calls) = 2
    /\ calls[1].method = "PUT"
    /\ calls[2].method = "GET"

\* C4: the Health endpoint reports backend `healthy` exactly when GET /
\* returns status 200, `unhealthy` when it returns another status and
\* `unreachable` when no response was obtained; frontend is `healthy` and
\* api_url is the configured backend URL in every case.
C4_HealthStatus ==
    (Done /\ request.route = "/api/health")
    => response.json =
         Some([frontend |-> "healthy",
               backend |-> IF ReturnedStatus(1, 200) THEN "healthy"
                           ELSE IF Returned(1) THEN "unhealthy"
                           ELSE "unreachable",
               api_url |-> API_BASE_URL])

\* C5: for every outcome of GET /users other than status 200, the List
\* handler returns the rendered list page with zero records and queues
\* exactly one error notification.
C5_ListFailure ==
    (Done /\ request.route = "/" /\ OtherThan(1, 200))
    => /\ response = render_template("index.html", <<>>)
       /\ Len(flashes) = 1
       /\ flashes[1].category = "error"

C5_Witness ==
    /\ Done
    /\ request.route = "/"
    /\ ReturnedStatus(1, 201)
    /\ outcomes[1].body.data = Some(<<Alice, Bob>>)
    /\ response.users = <<>>
    /\ Len(flashes) = 1

\* C6: for every outcome of DELETE /users/{id} (status 200, another status
\* or an absent response) the Delete handler redirects to List and queues
\* exactly one notification, of category `success` if and only if the
\* backend returned status 200 and `error` otherwise; nothing else differs.
C6_DeleteAlwaysRedirects ==
    (Done /\ request.route = "/delete_user" /\ (Returned(1) \/ Absent(1)))
    => /\ response = redirect("index")
       /\ calls = <<ApiCall("DELETE", UserEndpoint(Val(request.user_id)), None)>>
       /\ Len(flashes) = 1
       /\ flashes[1].category = (IF ReturnedStatus(1, 200) THEN "success" ELSE "error")

C6_Witness ==
    /\ Done
    /\ request.route = "/delete_user"
    /\ ReturnedStatus(1, 201)
    /\ response = redirect("index")
    /\ flashes[1].category = "error"

\* C7: for Create submit and Edit submit a success notification is queued if
\* and only if the backend returned the expected status (201 for POST
\* /users, 200 for PUT /users/{id}); then exactly one notification is
\* queued, it is a success, the response is a redirect to List and no
\* further backend call is made.
C7_SuccessOnlyOnExpectedStatus ==
    \A route \in {"/add_user", "/edit_user"} :
        Submit(route) =>
          LET expected == IF route = "/add_user" THEN 201 ELSE 200
          IN  /\ (SuccessesQueued # {}) <=> ReturnedStatus(1, expected)
              /\ ReturnedStatus(1, expected) =>
                   /\ Len(flashes) = 1
                   /\ flashes[1].category = "success"
                   /\ response = redirect("index")
                   /\ Len(calls) = 1

C7_Witness ==
    /\ Submit("/add_user")
    /\ ReturnedStatus(1, 201)
    /\ SuccessesQueued = {1}
    /\ response = redirect("index")

\* C8: for Create submit and Edit submit a missing or empty `age` field is
\* not an error: the backend call is made and its JSON payload has age =
\* null; a numeric age gives that integer; name and email are passed on
\* unchanged.
C8_AgePayload ==
    \A route \in {"/add_user", "/edit_user"} :
        (Submit(route) /\ (AgeBlank \/ AgeNumeric)) =>
          /\ Len(calls) >= 1
          /\ calls[1].method = (IF route = "/add_user" THEN "POST" ELSE "PUT")
          /\ calls[1].json =
               Some([name |-> request.form.name,
                     email |-> request.form.email,
                     age |-> IF AgeBlank THEN None
                             ELSE Some(NumberOf(Val(request.form.age)))])

C8_Witness ==
    /\ Submit("/add_user")
    /\ request.form.age = Some(<<"0">>)
    /\ request.form.name = Some("Alice")
    /\ Len(calls) = 1
    /\ Val(calls[1].json).age = Some(0)

\* every backend call of the request ended in the network absence or backend
\* rejection of the error taxonomy
AllCallsFailed ==
    /\ Done
    /\ Len(outcomes) >= 1
    /\ \A i \in 1..Len(outcomes) : OtherThan(i, ExpectedStatus(calls[i]))

RecoveredWithNotification ==
    /\ response.status # 500
    /\ response.kind \in {"template", "redirect"}
    /\ ErrorsQueued # {}

\* C9 (as stated): on every route, a request whose backend calls end in an
\* absent response or a non-success status completes with a rendered page
\* or a redirect plus at least one error notification, never with the 500
\* response.
C9_EveryRouteNotifies ==
    AllCallsFailed => RecoveredWithNotification

\* C9 (amended): on every route other than Health, a request whose backend
\* calls end in an absent response or a non-success status completes with a
\* rendered page or a redirect plus at least one error notification, never
\* with the 500 response; Health completes with its JSON result, status
\* 200, and queues no notification.
C9_PageRoutesNotify ==
    AllCallsFailed =>
      IF request.route = "/api/health"
      THEN response.kind = "json" /\ response.status = 200 /\ flashes = <<>>
      ELSE RecoveredWithNotification

C9_Witness ==
    /\ AllCallsFailed
    /\ request.route = "/add_user"
    /\ Absent(1)
    /\ response = render_template("add_user.html", <<>>)
    /\ ErrorsQueued = {1}

\* C10: a Create or Edit submission whose `age` field is non-empty and
\* non-numeric ends with the generic 500 response, issues no backend call
\* and queues no notification.
C10_BadAgeFailsFirst ==
    \A route \in {"/add_user", "/edit_user"} :
        (Submit(route) /\ AgeNonNumeric) =>
          /\ response = internal_error
          /\ calls = <<>>
          /\ flashes = <<>>

C10_Witness ==
    /\ Submit("/edit_user")
    /\ request.form.age = Some(<<"7", "x">>)
    /\ response = internal_error
    /\ calls = <<>>

====
